---- MODULE Spec2Model ----
(***************************************************************************)
(* The fix-workflow orchestrator: runFixWorkflow (orchestrator/workflow.ts) *)
(* and the state graph it runs (orchestrator/graph.ts).  One run of        *)
(* runFixWorkflow is modelled: the set-up, the graph's nodes with the      *)
(* channel merge after each node, the two conditional edges, and the       *)
(* mapping of the final state to the WorkflowResult.                       *)
(***************************************************************************)
EXTENDS Integers, Sequences, FiniteSets, TLC

\* ------------------------------------------------------------------ bounds
\* options.maxAttempts ranges over 1..MaxAttemptsOpt
MaxAttemptsOpt == 1
\* the number of node executions after which the graph runner gives up with a
\* recursion error (graph.invoke is called without a recursion limit)
RecursionLimit == 18
\* the verdicts of the first LogLen reviews of a run are kept in reviewLog
LogLen == 2
\* the number of method calls made on a sandbox object on its own
MaxCalls == 6

\* ------------------------------------------------------------ value spaces
Undefined == "undefined"
END == "__end__"

Nullish(v) == ToString(v) = ToString(Undefined)
\* JavaScript truthiness of an optional value; the boolean dryRun is written
\* "true" / "false"
Truthy(v) == ~Nullish(v) /\ v # "" /\ v # "false"

Feedbacks == {"", "fb1", "fb2"}
Fixes == {"fixA", "fixB"}
Fingerprints == {"fp1", "fp2"}
\* the fingerprint detected by runFixWorkflow before the sandbox is provisioned
\* (whichever the detector answers first is called fp1)
SetupFingerprint == "fp1"
Analyses == {"keywords", "nokeywords"}
\* fingerprint.language
Language(fp) == IF fp = "fp1" THEN "ts" ELSE "Python"
\* issueAnalysis.keywords
Keywords(a) == IF a = "keywords" THEN <<"k1", "k2">> ELSE <<>>
\* the queries the scout generates for the primary search
PrimaryQueries == <<[pattern |-> "q1", fileType |-> "ts", contextLines |-> 5]>>
\* what one ripgrep.search call does inside runSearch
Outcomes == {"none", "hit", "throws"}
PrimaryOutcomes == [1..Len(PrimaryQueries) -> Outcomes]
\* the outcomes of the n fallback queries: nothing found, every query finds
\* a snippet, or the first query throws and the others find a snippet
FallbackOutcomes(n) ==
    {[i \in 1..n |-> "none"], [i \in 1..n |-> "hit"],
     [i \in 1..n |-> IF i = 1 THEN "throws" ELSE "hit"]}
ExitCodes == {0, 1}
TheSandbox == "sandbox"

Nodes == {"analyze_issue", "detect_stack", "search_code", "generate_fix",
          "review_fix", "verify_fix", "submit_fix"}

\* ------------------------------------------------------ the state channels
Channels == {"issueUrl", "issueAnalysis", "repoPath", "fingerprint",
             "contextSnippets", "currentFix", "testResults", "attempts",
             "maxAttempts", "sandbox", "status", "error", "reviewFeedback"}

DefaultMaxAttempts == 5

ChannelDefaults ==
    [issueUrl |-> "", issueAnalysis |-> Undefined, repoPath |-> Undefined,
     fingerprint |-> Undefined, contextSnippets |-> <<>>,
     currentFix |-> Undefined, testResults |-> <<>>, attempts |-> 0,
     maxAttempts |-> DefaultMaxAttempts, sandbox |-> Undefined,
     status |-> "running", error |-> Undefined, reviewFeedback |-> Undefined]

\* (x, y) => y ?? x
LastValue(x, y) == IF Nullish(y) THEN x ELSE y
\* last write wins instead of concatenation
ConcatReplaces(x, y) == y
\* the new entries are put in front
ConcatPrepends(x, y) == y \o x
\* (x, y) => x.concat(y)
Concat(x, y) == x \o y
\* (x, y) => x
KeepFirst(x, y) == x

Reducer(k, x, y) ==
    CASE k = "testResults" -> Concat(x, y)
      [] k \in {"maxAttempts", "sandbox"} -> KeepFirst(x, y)
      [] OTHER -> LastValue(x, y)

\* A write to a channel: a channel that holds no value yet takes the written
\* value, otherwise the channel's reducer combines the two.
ChannelUpdate(k, x, y) == IF Nullish(x) THEN y ELSE Reducer(k, x, y)

\* The merge of a node's partial update into the state: only the keys that
\* are channels are written, the other keys of the update are dropped.
Merge(s, u) ==
    [k \in Channels |->
        IF k \in DOMAIN u THEN ChannelUpdate(k, s[k], u[k]) ELSE s[k]]

\* state.<key> as a node reads it
Read(s, k) == IF k \in DOMAIN s THEN s[k] ELSE Undefined

\* --------------------------------------------------------- transition rules
\* analyze_issue is followed by search_code
addEdgeSkipsDetect(n) ==
    CASE n = "analyze_issue" -> "search_code"
      [] n = "detect_stack" -> "search_code"
      [] n = "search_code" -> "generate_fix"
      [] n = "generate_fix" -> "review_fix"

\* the unconditional edges of the graph
addEdge(n) ==
    CASE n = "analyze_issue" -> "detect_stack"
      [] n = "detect_stack" -> "search_code"
      [] n = "search_code" -> "generate_fix"
      [] n = "generate_fix" -> "review_fix"

reviewRoute(s) ==
    IF Truthy(s.reviewFeedback) THEN "generate_fix" ELSE "verify_fix"

\* a passing verification is not told apart from a failing one
shouldContinueIgnoresSuccess(s) ==
    IF s.attempts >= s.maxAttempts THEN END ELSE "generate_fix"

\* the ceiling leads to submission
shouldContinueSubmitsAtCeiling(s) ==
    IF s.status = "success" THEN "submit_fix"
    ELSE IF s.attempts >= s.maxAttempts THEN "submit_fix"
    ELSE "generate_fix"

\* the assignment state.status = 'failed' is made on the state object handed
\* to the edge function; it is not a channel write
shouldContinue(s) ==
    IF s.status = "success" THEN "submit_fix"
    ELSE IF s.attempts >= s.maxAttempts THEN END
    ELSE "generate_fix"

\* ---------------------------------------------------------------- variables
VARIABLES
    options,      \* the WorkflowOptions of the call
    pc,           \* where runFixWorkflow is: "setup", "invoke", a node, END, "catch", "done"
    state,        \* the graph's channel values
    steps,        \* node executions so far
    sbx,          \* runFixWorkflow's sandbox: "unset", "new", "live", "killed"
    thrown,       \* the message of the error being handled
    result,       \* the WorkflowResult returned
    lastNode,     \* the node that ran last
    genCount,     \* generate_fix steps completed
    reviewCount,  \* review_fix steps completed
    approveCount, \* reviews that approved
    reviewLog,    \* approved? of the first LogLen reviews, in order
    verifyCount,  \* verify_fix steps completed
    submitCount,  \* submit_fix steps completed
    kills,        \* sandbox.kill() calls
    cleanups,     \* sandbox.cleanup() calls
    submission,   \* what submit_fix did: its side effects in order, the prUrl it returned, the fix it read
    searched,     \* what search_code did: primary result, the fallback's queries, outcomes and result
    engineerCall, \* the arguments of the latest engineer.generateFix call
    verdict,      \* the latest review: approved?, the feedback of a rejection, the fix reviewed
    sandboxFile,  \* the fix that verify_fix wrote into the sandbox last
    sandboxLog,   \* the sandbox calls the latest verify_fix started, in order
    modified      \* the files of the sandbox that differ from the provisioned repository

vars == <<options, pc, state, steps, sbx, thrown, result, lastNode,
          genCount, reviewCount, approveCount, reviewLog, verifyCount,
          submitCount, kills, cleanups, submission,
          searched, engineerCall, verdict, sandboxFile, sandboxLog, modified>>

counters == <<genCount, reviewCount, approveCount, reviewLog, verifyCount,
              submitCount>>

observed == <<searched, engineerCall, verdict, sandboxFile, sandboxLog, modified>>

NoSubmission == [effects |-> <<>>, prUrl |-> Undefined, fix |-> Undefined]

NoSearch == [primary |-> <<>>, deep |-> FALSE, queries |-> <<>>,
             outcomes |-> <<>>, broad |-> <<>>]

NoCall == [issue |-> Undefined, snippets |-> <<>>, language |-> Undefined,
           previousFailures |-> <<>>]

NoVerdict == [approved |-> FALSE, feedback |-> Undefined, fix |-> Undefined]

NoResult == [status |-> "none", prUrl |-> Undefined, error |-> Undefined, attempts |-> 0]

Init ==
    /\ options \in [maxAttempts : 1..MaxAttemptsOpt, dryRun : BOOLEAN]
    /\ pc = "setup"
    /\ state = ChannelDefaults
    /\ steps = 0
    /\ sbx = "unset"
    /\ thrown = Undefined
    /\ result = NoResult
    /\ lastNode = "none"
    /\ genCount = 0 /\ reviewCount = 0 /\ approveCount = 0
    /\ reviewLog = <<>> /\ verifyCount = 0 /\ submitCount = 0
    /\ kills = 0
    /\ cleanups = 0
    /\ submission = NoSubmission
    /\ searched = NoSearch
    /\ engineerCall = NoCall
    /\ verdict = NoVerdict
    /\ sandboxFile = Undefined
    /\ sandboxLog = <<>>
    /\ modified = {}

\* a step of the run throws: control goes to runFixWorkflow's catch block
Throw(msg) ==
    /\ pc' = "catch"
    /\ thrown' = msg

\* ----------------------------------------------------------- runFixWorkflow
\* the sandbox object is created but provision() is not awaited
provisionSkipped == "new"

\* the sandbox object after provision() has returned
provision == "live"

\* clone, detect the stack, create and provision the sandbox
Setup ==
    /\ pc = "setup"
    /\ \/ /\ sbx' = provision
          /\ pc' = "invoke"
          /\ UNCHANGED thrown
       \/ /\ Throw("clone failed")
          /\ UNCHANGED sbx
       \/ /\ sbx' \in {"new", "live"}
          /\ Throw("provision failed")
    /\ UNCHANGED <<options, state, steps, result, lastNode, counters, kills, cleanups, submission, observed>>

\* the initial state carries a review feedback
initialStateWithFeedback ==
    [issueUrl |-> "issue", repoPath |-> "repo", fingerprint |-> SetupFingerprint,
     contextSnippets |-> <<>>, testResults |-> <<>>, attempts |-> 0,
     maxAttempts |-> options.maxAttempts, sandbox |-> TheSandbox,
     dryRun |-> IF options.dryRun THEN "true" ELSE "false",
     status |-> "running", reviewFeedback |-> "fb1"]

initialState ==
    [issueUrl |-> "issue", repoPath |-> "repo", fingerprint |-> SetupFingerprint,
     contextSnippets |-> <<>>, testResults |-> <<>>, attempts |-> 0,
     maxAttempts |-> options.maxAttempts, sandbox |-> TheSandbox,
     dryRun |-> IF options.dryRun THEN "true" ELSE "false",
     status |-> "running"]

\* graph.invoke(initialState): the input is written to the channels
Invoke ==
    /\ pc = "invoke"
    /\ state' = Merge(ChannelDefaults, initialState)
    /\ pc' = "analyze_issue"
    /\ UNCHANGED <<options, steps, sbx, thrown, result, lastNode,
                   counters, kills, cleanups, submission, observed>>

\* ------------------------------------------------------------------- nodes
CanRun(n) == pc = n /\ steps < RecursionLimit

\* the node's update is merged and the runner moves to `next`
Complete(n, u, next) ==
    /\ state' = Merge(state, u)
    /\ steps' = steps + 1
    /\ lastNode' = n
    /\ pc' = next
    /\ UNCHANGED thrown

Abort(n, msg) ==
    /\ Throw(msg)
    /\ UNCHANGED <<state, steps, lastNode>>

analyzeIssueNode ==
    /\ CanRun("analyze_issue")
    /\ \/ \E a \in Analyses :
             Complete("analyze_issue", [issueAnalysis |-> a], addEdge("analyze_issue"))
       \/ Abort("analyze_issue", "issue fetch failed")
    /\ UNCHANGED <<options, sbx, result, counters, kills, cleanups, submission, observed>>

detectStackNode ==
    /\ CanRun("detect_stack")
    /\ IF ~Truthy(state.repoPath)
       THEN Abort("detect_stack", "Repo path missing")
       ELSE \E fp \in Fingerprints :
              Complete("detect_stack", [fingerprint |-> fp], addEdge("detect_stack"))
    /\ UNCHANGED <<options, sbx, result, counters, kills, cleanups, submission, observed>>

\* the fallback queries: one per keyword
broadQueries(s) ==
    LET kw == IF Truthy(s.issueAnalysis) THEN Keywords(s.issueAnalysis) ELSE <<>>
    IN [i \in 1..Len(kw) |->
          [pattern |-> kw[i],
           fileType |-> IF Truthy(s.fingerprint) THEN Language(s.fingerprint) ELSE "ts",
           contextLines |-> 10]]

\* RipgrepSearch.search: the rg invocation made for a query
RipgrepSearch(q) ==
    [pattern |-> q.pattern,
     context |-> IF q.contextLines = 0 THEN 10 ELSE q.contextLines,
     glob |-> IF Truthy(q.fileType) THEN "*." \o q.fileType ELSE Undefined]

\* the snippet a query finds
Snippet(q) == "s:" \o q.pattern

RECURSIVE runSearchStopsAtThrow(_, _)
\* the first query that throws ends the search
runSearchStopsAtThrow(queries, outcomes) ==
    IF Len(queries) = 0 \/ Head(outcomes) = "throws" THEN <<>>
    ELSE (IF Head(outcomes) = "hit" THEN <<Snippet(Head(queries))>> ELSE <<>>)
         \o runSearchStopsAtThrow(Tail(queries), Tail(outcomes))

RECURSIVE runSearch(_, _)
\* runSearch: the results of the queries in order; a query that throws is
\* logged and contributes nothing
runSearch(queries, outcomes) ==
    IF Len(queries) = 0 THEN <<>>
    ELSE (IF Head(outcomes) = "hit" THEN <<Snippet(Head(queries))>> ELSE <<>>)
         \o runSearch(Tail(queries), Tail(outcomes))

\* the fallback is run whatever the primary search found
deepSearchAlways(snippets) == TRUE

\* if (snippets.length === 0): the deep-search fallback is triggered
deepSearch(snippets) == Len(snippets) = 0

\* the snippets of the primary queries, or of the keyword fallback when the
\* primary queries found nothing
searchCodeNode ==
    /\ CanRun("search_code")
    /\ IF ~Truthy(state.issueAnalysis) \/ ~Truthy(state.fingerprint)
          \/ ~Truthy(state.repoPath)
       THEN /\ Abort("search_code", "Missing data for search")
            /\ UNCHANGED searched
       ELSE \/ \E pout \in PrimaryOutcomes :
               LET primary == runSearch(PrimaryQueries, pout)
                   deep == deepSearch(primary)
                   bq == IF deep THEN broadQueries(state) ELSE <<>>
               IN \E fout \in FallbackOutcomes(Len(bq)) :
                    LET broad == runSearch(bq, fout)
                        snippets == IF deep THEN broad ELSE primary
                    IN /\ Complete("search_code",
                                   [contextSnippets |-> snippets, projectMap |-> "map"],
                                   addEdge("search_code"))
                       /\ searched' = [primary |-> primary, deep |-> deep,
                                       queries |-> [i \in 1..Len(bq) |-> RipgrepSearch(bq[i])],
                                       outcomes |-> fout, broad |-> broad]
            \/ /\ Abort("search_code", "Repository path does not exist")
               /\ UNCHANGED searched
    /\ UNCHANGED <<options, sbx, result, counters, kills, cleanups, submission,
                   engineerCall, verdict, sandboxFile, sandboxLog, modified>>

\* the counter is left as it is
attemptNotCounted(s) == s.attempts

\* const attempt = state.attempts + 1
attempt(s) == s.attempts + 1

\* the entries are numbered from 0
previousFailuresZeroBased(trs) ==
    [i \in 1..Len(trs) |-> [error |-> trs[i].error, attempt |-> i - 1]]

\* state.testResults.map((tr, i) => ({ error: tr.error, attempt: i + 1 }))
previousFailures(trs) ==
    [i \in 1..Len(trs) |-> [error |-> trs[i].error, attempt |-> i]]

\* the arguments of engineer.generateFix
generateFix(s) ==
    [issue |-> s.issueAnalysis, snippets |-> s.contextSnippets,
     language |-> IF Truthy(s.fingerprint) THEN Language(s.fingerprint) ELSE "unknown",
     previousFailures |-> previousFailures(s.testResults)]

generateFixNode ==
    /\ CanRun("generate_fix")
    /\ \/ /\ \E fix \in Fixes :
               Complete("generate_fix",
                        [currentFix |-> fix, attempts |-> attempt(state),
                         reviewFeedback |-> Undefined],
                        addEdge("generate_fix"))
          /\ genCount' = genCount + 1
       \/ /\ Abort("generate_fix", "Failed to generate code fix autonomously")
          /\ UNCHANGED genCount
    /\ engineerCall' = generateFix(state)
    /\ UNCHANGED <<options, sbx, result, reviewCount, approveCount,
                   reviewLog, verifyCount, submitCount, kills, cleanups, submission,
                   searched, verdict, sandboxFile, sandboxLog, modified>>

reviewFixNode ==
    /\ CanRun("review_fix")
    /\ IF ~Truthy(state.currentFix) \/ ~Truthy(state.issueAnalysis)
       THEN /\ Abort("review_fix", "Missing data for review")
            /\ UNCHANGED <<reviewCount, approveCount, reviewLog, verdict>>
       ELSE \E approved \in BOOLEAN, feedback \in Feedbacks :
              LET u == IF approved THEN [reviewFeedback |-> Undefined]
                       ELSE [reviewFeedback |-> feedback]
              IN /\ Complete("review_fix", u, reviewRoute(Merge(state, u)))
                 /\ reviewCount' = reviewCount + 1
                 /\ approveCount' = approveCount + (IF approved THEN 1 ELSE 0)
                 /\ reviewLog' = IF Len(reviewLog) < LogLen
                                 THEN Append(reviewLog, approved) ELSE reviewLog
                 /\ verdict' = [approved |-> approved,
                                feedback |-> IF approved THEN Undefined ELSE feedback,
                                fix |-> state.currentFix]
    /\ UNCHANGED <<options, sbx, result, genCount, verifyCount,
                   submitCount, kills, cleanups, submission,
                   searched, engineerCall, sandboxFile, sandboxLog, modified>>

\* sandbox.runTests: passed is exitCode === 0
TestResult(code) ==
    [passed |-> (code = 0), exitCode |-> code,
     error |-> IF code = 0 THEN "" ELSE IF code = 1 THEN "E1" ELSE "E2"]

\* currentFix.file: the path a fix modifies
File(fix) == IF fix = "fixA" THEN "fileA" ELSE "fileB"
\* fingerprint.testCommand
TestCommand(fp) == "test:" \o fp

\* the precondition is not tested
verifyPreconditionUnchecked(s) == TRUE

\* sandbox, currentFix and fingerprint are all present
verifyPrecondition(s) ==
    Truthy(s.sandbox) /\ Truthy(s.currentFix) /\ Truthy(s.fingerprint)

\* the tests are started before the fix is written
verifyCallsTestFirst(s) ==
    <<[op |-> "runTests", on |-> s.sandbox, arg |-> TestCommand(s.fingerprint)],
      [op |-> "writeFile", on |-> s.sandbox, arg |-> s.currentFix]>>

\* the sandbox calls of verify_fix, in order
verifyCalls(s) ==
    <<[op |-> "writeFile", on |-> s.sandbox, arg |-> s.currentFix],
      [op |-> "runTests", on |-> s.sandbox, arg |-> TestCommand(s.fingerprint)]>>

\* a failing test run ends the workflow state as failed
verifyUpdateMarksFailed(r) ==
    IF r.passed THEN [status |-> "success", testResults |-> <<r>>]
    ELSE [status |-> "failed", testResults |-> <<r>>]

\* what verify_fix returns for a test result
verifyUpdate(r) ==
    IF r.passed THEN [status |-> "success", testResults |-> <<r>>]
    ELSE [status |-> "running", testResults |-> <<r>>]

\* the sandbox after the calls `done` of verify_fix have returned
Written(done) ==
    LET wrote == \E i \in 1..Len(done) : done[i].op = "writeFile"
    IN /\ sandboxFile' = IF wrote THEN state.currentFix ELSE sandboxFile
       /\ modified' = IF wrote THEN modified \cup {File(state.currentFix)}
                      ELSE modified

\* Call n of verify_fix throws.  runTests throws what the SDK's commands.run
\* throws, which rejects a command that exits with a non-zero code.
verifyThrows(calls, n) ==
    /\ Abort("verify_fix", IF calls[n].op = "runTests"
                           THEN "Command exited with code 1"
                           ELSE "sandbox call failed")
    /\ sandboxLog' = SubSeq(calls, 1, n)
    /\ Written(SubSeq(calls, 1, n - 1))
    /\ UNCHANGED verifyCount

verifyFixNode ==
    /\ CanRun("verify_fix")
    /\ IF ~verifyPrecondition(state)
       THEN /\ Abort("verify_fix", "Sandbox or Fix missing")
            /\ UNCHANGED <<verifyCount, sandboxFile, sandboxLog, modified>>
       ELSE LET calls == verifyCalls(state)
            IN \/ /\ sbx = "live"
                  /\ \E code \in ExitCodes :
                       LET r == TestResult(code)
                           u == verifyUpdate(r)
                       IN Complete("verify_fix", u, shouldContinue(Merge(state, u)))
                  /\ verifyCount' = verifyCount + 1
                  /\ sandboxLog' = calls
                  /\ Written(calls)
               \/ \E n \in 1..Len(calls) : verifyThrows(calls, n)
    /\ UNCHANGED <<options, sbx, result, genCount, reviewCount,
                   approveCount, reviewLog, submitCount, kills, cleanups, submission,
                   searched, engineerCall, verdict>>

\* what submit_fix does outside dry-run, in order
SubmitSteps == <<"readFile", "writeLocal", "gitCommit", "gitPush", "createPR">>

\* a failed submission sends the run back to fix generation
afterSubmitRetriesOnError(s) ==
    IF Truthy(s.error) THEN "generate_fix" ELSE END

\* the edge submit_fix -> END
afterSubmit(s) == END

SubmitDone(u, effects) ==
    /\ Complete("submit_fix", u, afterSubmit(Merge(state, u)))
    /\ submission' = [effects |-> effects, prUrl |-> Read(u, "prUrl"),
                      fix |-> IF Len(effects) > 0 THEN sandboxFile ELSE Undefined]

submitFixNode ==
    /\ CanRun("submit_fix")
    /\ IF Truthy(Read(state, "dryRun"))
       THEN SubmitDone([prUrl |-> "DRY-RUN-NO-PR"], <<>>)
       ELSE IF ~Truthy(state.currentFix) \/ ~Truthy(state.repoPath)
               \/ ~Truthy(state.sandbox)
       THEN SubmitDone([error |-> "PR creation failed: Missing data for submission"],
                       <<>>)
       ELSE \/ SubmitDone([prUrl |-> "pr-url"], SubmitSteps)
            \/ \E i \in 1..Len(SubmitSteps) :
                 SubmitDone([error |-> "PR creation failed: " \o SubmitSteps[i]],
                            SubSeq(SubmitSteps, 1, i - 1))
    /\ submitCount' = submitCount + 1
    /\ UNCHANGED <<options, sbx, result, genCount, reviewCount,
                   approveCount, reviewLog, verifyCount, kills, cleanups, observed>>

\* the runner stops a graph that has not ended within its step limit
RecursionError ==
    /\ pc \in Nodes
    /\ steps >= RecursionLimit
    /\ Throw("Recursion limit reached")
    /\ UNCHANGED <<options, state, steps, sbx, result, lastNode,
                   counters, kills, cleanups, submission, observed>>

\* ---------------------------------------------------------- E2BSandbox
\* cleanup() that kills the sandbox but keeps the handle
cleanupKeepsHandle(killOk) ==
    /\ cleanups' = cleanups + 1
    /\ IF sbx = "live"
       THEN kills' = kills + 1 /\ UNCHANGED sbx
       ELSE UNCHANGED <<sbx, kills>>

\* E2BSandbox.cleanup(): if there is a sandbox, kill it and drop the handle;
\* killOk tells whether kill() returns or throws
cleanup(killOk) ==
    /\ cleanups' = cleanups + 1
    /\ IF sbx = "live"
       THEN /\ kills' = kills + 1
            /\ sbx' = IF killOk THEN "killed" ELSE "live"
       ELSE UNCHANGED <<sbx, kills>>

\* cleanup() throws exactly when kill() is called and throws
cleanupThrows(killOk) == sbx = "live" /\ ~killOk

\* ------------------------------------------------- after the graph has ended
\* sandbox.cleanup(), then the final state is mapped to the result
Finish ==
    /\ pc = END
    /\ \E killOk \in BOOLEAN :
         /\ cleanup(killOk)
         /\ IF cleanupThrows(killOk)
            THEN /\ Throw("cleanup failed")
                 /\ UNCHANGED result
            ELSE /\ pc' = "done"
                 /\ result' =
                      IF state.status = "success"
                      THEN [status |-> "success", prUrl |-> Read(state, "prUrl"),
                            error |-> Undefined, attempts |-> state.attempts]
                      ELSE [status |-> "failed", prUrl |-> Undefined,
                            error |-> IF Truthy(state.error) THEN state.error
                                      ELSE "Workflow completed without reaching success state.",
                            attempts |-> state.attempts]
                 /\ UNCHANGED thrown
    /\ UNCHANGED <<options, state, steps, lastNode, counters, submission, observed>>

\* the catch block never cleans up
SandboxNeverDefined(s) == FALSE

\* if (sandbox): the sandbox object has been created
SandboxDefined(s) == s # "unset"

\* the result carries the error of the failed cleanup
CatchErrorMasked(original, cleanupFailed) ==
    IF cleanupFailed THEN "cleanup failed" ELSE original

\* the result carries a fixed message
CatchErrorGeneric(original, cleanupFailed) == "Workflow failed"

\* error: error.message, whatever the cleanup inside the catch block did
CatchError(original, cleanupFailed) == original

\* the catch block: clean up if the sandbox object exists, report failed
Catch ==
    /\ pc = "catch"
    /\ IF SandboxDefined(sbx)
       THEN \E killOk \in BOOLEAN :
              /\ cleanup(killOk)
              /\ result' = [status |-> "failed", prUrl |-> Undefined,
                            error |-> CatchError(thrown, cleanupThrows(killOk)),
                            attempts |-> 0]
       ELSE /\ UNCHANGED <<sbx, kills, cleanups>>
            /\ result' = [status |-> "failed", prUrl |-> Undefined,
                          error |-> CatchError(thrown, FALSE), attempts |-> 0]
    /\ pc' = "done"
    /\ UNCHANGED <<options, state, steps, thrown, lastNode, counters, submission, observed>>

Next ==
    \/ Setup
    \/ Invoke
    \/ analyzeIssueNode
    \/ detectStackNode
    \/ searchCodeNode
    \/ generateFixNode
    \/ reviewFixNode
    \/ verifyFixNode
    \/ submitFixNode
    \/ RecursionError
    \/ Finish
    \/ Catch

Spec == Init /\ [][Next]_vars

\* ----------------------------------------------- a sandbox object on its own
\* An E2BSandbox that is constructed and then has its methods called in any
\* order, at most MaxCalls times; lastNode is the method called last, thrown
\* the error of that call.
SbInit ==
    /\ options = [maxAttempts |-> 1, dryRun |-> FALSE]
    /\ pc = "object"
    /\ state = ChannelDefaults
    /\ steps = 0
    /\ sbx = "new"
    /\ thrown = Undefined
    /\ result = NoResult
    /\ lastNode = "none"
    /\ genCount = 0 /\ reviewCount = 0 /\ approveCount = 0
    /\ reviewLog = <<>> /\ verifyCount = 0 /\ submitCount = 0
    /\ kills = 0
    /\ cleanups = 0
    /\ submission = NoSubmission
    /\ searched = NoSearch
    /\ engineerCall = NoCall
    /\ verdict = NoVerdict
    /\ sandboxFile = Undefined
    /\ sandboxLog = <<>>
    /\ modified = {}

SbCall(method) ==
    /\ pc = "object"
    /\ steps < MaxCalls
    /\ steps' = steps + 1
    /\ lastNode' = method
    /\ UNCHANGED <<options, pc, state, result, counters, submission, observed>>

\* provision(): Sandbox.create, then clone or sync, then install
SbProvision ==
    /\ SbCall("provision")
    /\ \/ sbx' = "live" /\ thrown' = Undefined
       \/ sbx' = sbx /\ thrown' = "create failed"
       \/ sbx' = "live" /\ thrown' = "clone failed"
    /\ UNCHANGED <<kills, cleanups>>

SbCleanup ==
    /\ SbCall("cleanup")
    /\ \E killOk \in BOOLEAN :
         /\ cleanup(killOk)
         /\ thrown' = IF cleanupThrows(killOk) THEN "kill failed" ELSE Undefined

\* readFile, writeFile, runTests
SbUse ==
    /\ \E method \in {"readFile", "writeFile", "runTests"} : SbCall(method)
    /\ IF sbx # "live"
       THEN thrown' = "Sandbox not initialized"
       ELSE thrown' \in {Undefined, "sandbox call failed"}
    /\ UNCHANGED <<sbx, kills, cleanups>>

SbNext == SbProvision \/ SbCleanup \/ SbUse

SandboxSpec == SbInit /\ [][SbNext]_vars

\* ------------------------------------------------------ verify_fix on its own
\* verify_fix entered in any graph state, also one in which the sandbox
\* handle, the current fix or the fingerprint is missing, inside a run whose
\* sandbox is provisioned; what follows is the catch block when it throws.
VfInit ==
    /\ options = [maxAttempts |-> 1, dryRun |-> FALSE]
    /\ pc = "verify_fix"
    /\ \E sb \in {Undefined, TheSandbox}, fix \in Fixes \cup {Undefined},
          fp \in Fingerprints \cup {Undefined}, n \in 1..DefaultMaxAttempts,
          trs \in {<<>>, <<TestResult(1)>>} :
         state = [ChannelDefaults EXCEPT !.issueUrl = "issue",
                    !.issueAnalysis = "keywords", !.repoPath = "repo",
                    !.sandbox = sb, !.currentFix = fix, !.fingerprint = fp,
                    !.attempts = n, !.testResults = trs]
    /\ steps = 5
    /\ sbx = "live"
    /\ thrown = Undefined
    /\ result = NoResult
    /\ lastNode = "review_fix"
    /\ genCount = state.attempts /\ reviewCount = 0 /\ approveCount = 0
    /\ reviewLog = <<>> /\ verifyCount = Len(state.testResults) /\ submitCount = 0
    /\ kills = 0
    /\ cleanups = 0
    /\ submission = NoSubmission
    /\ searched = NoSearch
    /\ engineerCall = NoCall
    /\ verdict = NoVerdict
    /\ sandboxFile = Undefined
    /\ sandboxLog = <<>>
    /\ modified = {}

VfNext == verifyFixNode \/ Catch

VerifySpec == VfInit /\ [][VfNext]_vars

\* ------------------------------------------------------------------ claims
IsPrefix(s, t) == Len(s) <= Len(t) /\ SubSeq(t, 1, Len(s)) = s

\* the run has returned after the graph reached its end and cleanup succeeded
EndedNormally == pc = "done" /\ Nullish(thrown)
\* a collaborator call or a node precondition has thrown
StepThrew == ~Nullish(thrown) /\ thrown # "Recursion limit reached"
AllApproved == reviewCount > 0 /\ approveCount = reviewCount
AllRejected == reviewCount > 0 /\ approveCount = 0
AllTestsFailed ==
    \A i \in 1..Len(state.testResults) : ~state.testResults[i].passed

\* C1: whenever generate_fix begins, attempts does not exceed maxAttempts,
\* whichever edge led to it (search_code, the retry edge, the rejection edge).
C1_AttemptsWithinCeiling ==
    CanRun("generate_fix") => state.attempts <= state.maxAttempts

\* C2: while the graph runs and when it has ended, the maxAttempts the
\* transition rule reads is the options.maxAttempts of the call.
C2_MaxAttemptsIsOption ==
    pc \in Nodes \cup {END} => state.maxAttempts = options.maxAttempts

\* C3: with maxAttempts = N, every review approving and every verification
\* failing, the run ends failed with attempts = N and N test results.
C3_AllFailScenario ==
    (EndedNormally /\ AllApproved /\ AllTestsFailed) =>
        /\ result.status = "failed"
        /\ result.attempts = options.maxAttempts
        /\ Len(state.testResults) = options.maxAttempts

\* C4: while every review so far has rejected, verify_fix has not run and
\* testResults is empty, generate_fix is not entered at the ceiling, and a
\* run that is over ended failed by the graph reaching its end.
C4_AlwaysRejected ==
    (AllRejected /\ ~StepThrew) =>
        /\ verifyCount = 0
        /\ Len(state.testResults) = 0
        /\ pc # "verify_fix"
        /\ (pc = "generate_fix" => state.attempts < state.maxAttempts)
        /\ (pc = "done" => Nullish(thrown) /\ result.status = "failed")

\* C5: first review rejects, second approves, no verification fails: no third
\* generate_fix runs, at most one verify_fix runs, and the run ends with
\* attempts = 2 and one test result.
C5_RejectThenApprove ==
    (/\ Len(reviewLog) >= 2 /\ ~reviewLog[1] /\ reviewLog[2]
     /\ ~StepThrew /\ \A i \in 1..Len(state.testResults) : state.testResults[i].passed) =>
        /\ pc # "generate_fix"
        /\ genCount = 2
        /\ verifyCount <= 1
        /\ (pc = "done" => /\ Nullish(thrown)
                           /\ result.attempts = 2
                           /\ verifyCount = 1
                           /\ Len(state.testResults) = 1)

\* C6: the first fix is approved and passes verification: submit_fix runs
\* once, no second generate_fix runs, the run ends with attempts = 1.
C6_FirstFixPasses ==
    (/\ Len(reviewLog) >= 1 /\ reviewLog[1]
     /\ Len(state.testResults) >= 1 /\ state.testResults[1].passed) =>
        /\ genCount = 1
        /\ state.attempts = 1
        /\ submitCount <= 1
        /\ pc \in {"submit_fix", END, "catch", "done"}
        /\ (pc \in {END, "done"} => submitCount = 1)
        /\ (EndedNormally => result.attempts = 1)

C6_Witness ==
    /\ EndedNormally /\ reviewLog = <<TRUE>> /\ submitCount = 1
    /\ Len(state.testResults) = 1 /\ state.testResults[1].passed

\* C7: the length of testResults is the number of verify_fix steps completed.
C7_LengthIsVerifyCount == Len(state.testResults) = verifyCount

C7_Witness == pc = "done" /\ verifyCount = 3 /\ Len(state.testResults) = 3

\* C8: testResults is append-only: every step keeps the earlier list as a
\* prefix, a completed verify_fix adds exactly one entry at the end and every
\* other step leaves the list as it is.
C8_AppendOnly ==
    [][/\ IsPrefix(state.testResults, state'.testResults)
       /\ Len(state'.testResults) =
             Len(state.testResults) + (verifyCount' - verifyCount)
       /\ verifyCount' - verifyCount \in {0, 1}]_vars

C8_Witness ==
    /\ Len(state.testResults) = 2
    /\ ~state.testResults[1].passed /\ state.testResults[2].passed

C10_NoFeedbackAtFirstAttempt ==
    (pc = "generate_fix" /\ state.attempts = 0) =>
        Nullish(state.reviewFeedback)

C10_Witness ==
    pc = "generate_fix" /\ state.attempts = 0 /\ lastNode = "search_code"

\* a submit_fix step has run and did not obtain a pull request
SubmitFailed == submitCount > 0 /\ Nullish(submission.prUrl)

\* C11: after verify_fix, a success status leads to submit_fix; otherwise at
\* the ceiling the state's status is failed and the graph has ended;
\* otherwise generate_fix is next.
C11_VerifyRouting ==
    (lastNode = "verify_fix" /\ pc \in Nodes \cup {END}) =>
        IF state.status = "success" THEN pc = "submit_fix"
        ELSE IF state.attempts >= state.maxAttempts
             THEN pc = END /\ state.status = "failed"
             ELSE pc = "generate_fix"

\* C12: submit_fix runs only in a state whose status is success, directly
\* after a verify_fix whose test run passed.
C12_SubmitOnlyOnSuccess ==
    (pc = "submit_fix" \/ submitCount > 0) =>
        /\ state.status = "success"
        /\ verifyCount > 0
        /\ state.testResults[Len(state.testResults)].passed
        /\ (pc = "submit_fix" => lastNode = "verify_fix")

C12_Witness ==
    /\ pc = "submit_fix" /\ lastNode = "verify_fix" /\ verifyCount = 2
    /\ ~state.testResults[1].passed

\* C13: a failure inside submit_fix is recorded in state.error, status stays
\* success, and the returned result is success carrying that error.
C13_SubmitErrorReported ==
    SubmitFailed =>
        /\ Truthy(state.error)
        /\ state.status = "success"
        /\ (EndedNormally =>
               result.status = "success" /\ result.error = state.error)

\* C14: a completed submit_fix leads to the end of the graph whatever it
\* returned, and once the graph has ended (after submit_fix or on the
\* ceiling path) no node runs and the state no longer changes.
C14_TerminalIsFinal ==
    [][/\ (submitCount' # submitCount => pc' = END)
       /\ ((pc = END \/ submitCount > 0) =>
              /\ pc' \notin Nodes
              /\ steps' = steps
              /\ state' = state
              /\ counters' = counters)]_vars

C14_Witness ==
    /\ pc = "done" /\ submitCount = 1 /\ genCount = 2
    /\ state.error = "PR creation failed: gitPush"

\* C15: with options.dryRun = true, submit_fix performs no side effect and
\* returns the sentinel 'DRY-RUN-NO-PR'.
C15_DryRunNoEffects ==
    (options.dryRun /\ submitCount > 0) =>
        /\ submission.effects = <<>>
        /\ submission.prUrl = "DRY-RUN-NO-PR"

\* C16: when runFixWorkflow has returned and the sandbox object had been
\* created, sandbox.cleanup() has been invoked.
C16_CleanupOnEveryPath ==
    (pc = "done" /\ sbx # "unset") => cleanups >= 1

C16_Witness ==
    pc = "done" /\ thrown = "provision failed" /\ sbx = "new" /\ cleanups = 1

\* C17: when a step throws, no further step runs and runFixWorkflow returns
\* failed with the thrown error's message; the catch block always returns.
C17_ThrowReportedAsFailed ==
    /\ []((pc = "done" /\ ~Nullish(thrown)) =>
             result.status = "failed" /\ result.error = thrown)
    /\ [](pc = "catch" => ENABLED Catch)
    /\ [][pc = "catch" =>
             /\ pc' = "done"
             /\ steps' = steps
             /\ state' = state
             /\ counters' = counters]_vars

C17_Witness ==
    /\ pc = "done" /\ thrown = "Failed to generate code fix autonomously"
    /\ genCount = 1 /\ result.status = "failed"
    /\ result.error = "Failed to generate code fix autonomously"

\* C18: when a step throws and the cleanup in the catch block throws too, the
\* result is failed with the step's message.
C18_CleanupFailureNotMasking ==
    (pc = "done" /\ StepThrew /\ thrown # "cleanup failed" /\ sbx = "live") =>
        /\ cleanups >= 1
        /\ result.status = "failed"
        /\ result.error = thrown

C18_Witness ==
    /\ pc = "done" /\ thrown = "sandbox call failed" /\ sbx = "live"
    /\ kills = 1 /\ result.error = "sandbox call failed"

\* C19: retries are bounded by the attempts counter: no more than maxAttempts
\* fixes are generated and the graph ends by itself, it is not cut off by the
\* runner's step limit.
C19_RetriesBoundedByCounter ==
    /\ genCount <= state.maxAttempts
    /\ thrown # "Recursion limit reached"

\* C20: a cleanup() that follows a cleanup() that succeeded, and a cleanup()
\* of a sandbox that was never provisioned, kills nothing, throws nothing and
\* leaves the object as it is.
C20_CleanupIdempotent ==
    [][(cleanups' = cleanups + 1 /\
        ((lastNode = "cleanup" /\ Nullish(thrown)) \/ sbx = "new")) =>
           /\ kills' = kills
           /\ Nullish(thrown')
           /\ sbx' = sbx]_vars

C20_Witness ==
    /\ lastNode = "cleanup" /\ steps = 3 /\ cleanups = 2 /\ kills = 1
    /\ sbx = "killed" /\ Nullish(thrown)

\* the strings handed to engineer.generateFix by a call
CallInputs(c) ==
    {c.issue, c.language}
    \cup {c.snippets[i] : i \in 1..Len(c.snippets)}
    \cup {c.previousFailures[i].error : i \in 1..Len(c.previousFailures)}

\* C21: every review_fix that approves leaves reviewFeedback absent and is
\* followed by verify_fix.
C21_ApprovalLeadsToVerify ==
    [][(reviewCount' = reviewCount + 1 /\ verdict'.approved) =>
          /\ Nullish(state'.reviewFeedback)
          /\ pc' = "verify_fix"]_vars

\* C22: a review_fix that rejects sets reviewFeedback to the verdict's
\* feedback, is followed by generate_fix, and leaves testResults, attempts,
\* status and currentFix as they were.
C22_RejectionRoutesBack ==
    [][(reviewCount' = reviewCount + 1 /\ ~verdict'.approved) =>
          /\ state'.reviewFeedback = verdict'.feedback
          /\ pc' = "generate_fix"
          /\ state'.testResults = state.testResults
          /\ state'.attempts = state.attempts
          /\ state'.status = state.status
          /\ state'.currentFix = state.currentFix]_vars

\* C23: in every state attempts is the number of generate_fix steps completed
\* so far (0 at the start, one more after each generate_fix, nothing else).
C23_AttemptsCountsGenerations == state.attempts = genCount

C23_Witness ==
    /\ genCount = 3 /\ state.attempts = 3 /\ verifyCount = 1
    /\ lastNode = "review_fix"

\* C24: analyze_issue, detect_stack and search_code are the first, second and
\* third step, each run once, before any generate_fix; a completed
\* generate_fix is followed by review_fix and review_fix follows nothing else.
C24_StepOrder ==
    /\ (pc = "analyze_issue" => steps = 0 /\ lastNode = "none")
    /\ (pc = "detect_stack" => steps = 1)
    /\ (pc = "search_code" => steps = 2)
    /\ (lastNode = "analyze_issue" =>
           steps = 1 /\ pc \in {"detect_stack", "catch", "done"})
    /\ (lastNode = "detect_stack" =>
           steps = 2 /\ pc \in {"search_code", "catch", "done"})
    /\ (lastNode = "search_code" =>
           steps = 3 /\ genCount = 0 /\ pc \in {"generate_fix", "catch", "done"})
    /\ (genCount > 0 => steps > 3)
    /\ (lastNode = "generate_fix" => pc \in {"review_fix", "catch", "done"})
    /\ (pc = "review_fix" => lastNode = "generate_fix")

C24_Witness ==
    /\ pc = "verify_fix" /\ lastNode = "review_fix" /\ steps = 5 /\ genCount = 1

\* C25: once search_code has completed, the fallback was run exactly when the
\* primary queries found no snippet; contextSnippets is the primary result if
\* there is one, otherwise the fallback's result (one query per keyword was
\* run), and the step records no error (only submit_fix writes state.error).
C25_FallbackExactlyWhenEmpty ==
    steps >= 3 =>
        /\ searched.deep = (Len(searched.primary) = 0)
        /\ (~searched.deep =>
               /\ searched.queries = <<>>
               /\ state.contextSnippets = searched.primary)
        /\ (searched.deep =>
               /\ Len(searched.queries) = Len(Keywords(state.issueAnalysis))
               /\ state.contextSnippets = searched.broad
               /\ (submitCount = 0 => Nullish(state.error)))

C25_Witness ==
    /\ steps >= 3 /\ searched.deep /\ searched.primary = <<>>
    /\ state.contextSnippets = <<"s:k1", "s:k2">>

\* C26: the fallback's searches are one per keyword, in keyword order, with
\* the keyword as pattern and without a file-type filter.
C26_FallbackQueries ==
    (steps >= 3 /\ searched.deep) =>
        LET kw == Keywords(state.issueAnalysis)
        IN /\ Len(searched.queries) = Len(kw)
           /\ \A i \in 1..Len(searched.queries) :
                /\ searched.queries[i].pattern = kw[i]
                /\ Nullish(searched.queries[i].glob)

\* C27: search_code aborts only for missing data or a missing repository,
\* never for what the searches did; every snippet a query found is in
\* contextSnippets even if another query threw; with an empty contextSnippets
\* generate_fix and review_fix can complete.
C27_SearchOutcomesNeverFail ==
    /\ ((steps = 2 /\ ~Nullish(thrown)) =>
           thrown \in {"Missing data for search", "Repository path does not exist"})
    /\ ((steps >= 3 /\ searched.deep) =>
           \A i \in 1..Len(searched.outcomes) :
              searched.outcomes[i] = "hit" =>
                 \E j \in 1..Len(state.contextSnippets) :
                    state.contextSnippets[j] = "s:" \o searched.queries[i].pattern)
    /\ ((pc = "generate_fix" /\ steps < RecursionLimit
           /\ state.contextSnippets = <<>>) =>
           ENABLED (generateFixNode /\ pc' = "review_fix"))
    /\ ((pc = "review_fix" /\ steps < RecursionLimit
           /\ state.contextSnippets = <<>>) =>
           ENABLED (reviewFixNode /\ pc' # "catch"))

C27_Witness ==
    /\ searched.deep /\ searched.outcomes = <<"none", "none">>
    /\ state.contextSnippets = <<>>
    /\ lastNode = "review_fix" /\ reviewCount = 1 /\ Nullish(thrown)

\* C28: the prior-failure list of a generateFix call has one entry per
\* verify_fix completed so far, in order; entry i has attempt number i and the
\* error of testResults[i]; it is empty on the first attempt.
C28_PreviousFailures ==
    (lastNode = "generate_fix"
       \/ thrown = "Failed to generate code fix autonomously") =>
        /\ Len(engineerCall.previousFailures) = verifyCount
        /\ (genCount <= 1 /\ lastNode # "verify_fix" =>
               engineerCall.previousFailures = <<>>)
        /\ \A i \in 1..Len(engineerCall.previousFailures) :
              /\ engineerCall.previousFailures[i].attempt = i
              /\ engineerCall.previousFailures[i].error = state.testResults[i].error

C28_Witness ==
    /\ lastNode = "generate_fix" /\ Len(engineerCall.previousFailures) = 2
    /\ verifyCount = 2 /\ genCount = 4

\* C29: a reviewFeedback present when generate_fix starts is among the inputs
\* of that attempt's generateFix call.
C29_FeedbackHandedToEngineer ==
    [][(genCount' = genCount + 1 /\ Truthy(state.reviewFeedback)) =>
          state.reviewFeedback \in CallInputs(engineerCall')]_vars

\* C30: the fix submit_fix reads and publishes is the currentFix of the latest
\* generate_fix, the fix the latest review approved and the fix the latest,
\* passing, verify_fix wrote and tested.
C30_NoStaleFix ==
    (submitCount > 0 /\ ~Nullish(submission.fix)) =>
        /\ submission.fix = state.currentFix
        /\ sandboxFile = state.currentFix
        /\ state.testResults[Len(state.testResults)].passed
        /\ verdict.fix = state.currentFix
        /\ verdict.approved

\* C31: status is running, success or failed and starts as running; once
\* success it stays success and the run is at submit_fix or past it; the step
\* that makes it success leads to submit_fix; once failed no step runs.
C31_StatusMonotonic ==
    /\ [](state.status \in {"running", "success", "failed"})
    /\ []((pc \in {"setup", "invoke", "analyze_issue"}) => state.status = "running")
    /\ [](state.status = "success" => pc \in {"submit_fix", END, "catch", "done"})
    /\ [][state.status = "success" => state'.status = "success"]_vars
    /\ [][(state.status # "success" /\ state'.status = "success") =>
             pc' = "submit_fix"]_vars
    /\ [][state.status = "failed" => steps' = steps /\ state' = state]_vars

C31_Witness ==
    /\ pc = "done" /\ state.status = "success" /\ submitCount = 1
    /\ verifyCount = 2 /\ result.status = "success"

\* C32: status is success exactly when the appended test result has exit code
\* 0, and a test run that exits with a non-zero code does not abort the run.
C32_TestFailureIsNotAnError ==
    /\ (verifyCount > 0 =>
           LET r == state.testResults[Len(state.testResults)]
           IN (state.status = "success") = (r.exitCode = 0))
    /\ Len(state.testResults) = verifyCount
    /\ thrown # "Command exited with code 1"

\* C33: verify_fix writes the current fix into the run's sandbox before it
\* starts the tests, the test command is the state's fingerprint's, both calls
\* go to the same sandbox, and when the write throws no test is started and
\* no result is appended.
C33_WriteBeforeTest ==
    /\ Len(sandboxLog) <= 2
    /\ (sandboxLog # <<>> =>
           sandboxLog[1].op = "writeFile" /\ sandboxLog[1].on = TheSandbox)
    /\ (Len(sandboxLog) = 2 =>
           /\ sandboxLog[2].op = "runTests"
           /\ sandboxLog[2].on = sandboxLog[1].on
           /\ sandboxFile = sandboxLog[1].arg)
    /\ (Len(sandboxLog) = 1 =>
           /\ pc \in {"catch", "done"}
           /\ thrown = "sandbox call failed"
           /\ Len(state.testResults) = verifyCount)
    /\ ((lastNode = "verify_fix" /\ Nullish(thrown)) =>
           /\ Len(sandboxLog) = 2
           /\ sandboxLog[1].arg = state.currentFix
           /\ sandboxLog[2].arg = TestCommand(state.fingerprint))

C33_Witness ==
    /\ lastNode = "verify_fix" /\ Nullish(thrown) /\ verifyCount = 2
    /\ Len(sandboxLog) = 2 /\ sandboxLog[1].arg = "fixB"
    /\ sandboxLog[2].arg = "test:fp2"

\* C34: verify_fix entered without the sandbox handle, the current fix or the
\* fingerprint throws: the state (test results, attempts) is left as it is,
\* nothing routes back to generate_fix, and the run returns failed.
C34_MissingDataIsFatal ==
    /\ [][(pc = "verify_fix" /\
           (~Truthy(state.sandbox) \/ ~Truthy(state.currentFix)
              \/ ~Truthy(state.fingerprint))) =>
             /\ pc' = "catch"
             /\ thrown' = "Sandbox or Fix missing"
             /\ state' = state
             /\ verifyCount' = verifyCount]_vars
    /\ []((pc = "done" /\ thrown = "Sandbox or Fix missing") =>
             result.status = "failed" /\ result.error = thrown)

C34_Witness ==
    /\ pc = "done" /\ thrown = "Sandbox or Fix missing"
    /\ Nullish(state.sandbox) /\ Truthy(state.currentFix)
    /\ result.status = "failed" /\ verifyCount = Len(state.testResults)

\* C35: the state's fingerprint is the one the sandbox was provisioned with
\* in every graph state, and the test command verify_fix runs is that
\* fingerprint's.
C35_FingerprintSetOnce ==
    /\ (pc \in (Nodes \ {"analyze_issue"}) \cup {END} =>
           state.fingerprint = SetupFingerprint)
    /\ (Len(sandboxLog) = 2 =>
           sandboxLog[2].arg = TestCommand(SetupFingerprint))

C37_ResultAttempts == pc = "done" => result.attempts = genCount

\* C38: the run returns success exactly when some verify_fix recorded a
\* passing test result; otherwise it returns failed with a non-empty error.
C38_SuccessIffPassed ==
    pc = "done" =>
        /\ (result.status = "success") =
              (\E i \in 1..Len(state.testResults) : state.testResults[i].passed)
        /\ (result.status # "success" =>
               result.status = "failed" /\ Truthy(result.error))

\* C39: the prUrl submit_fix returned is in the final state and is the prUrl
\* of the returned result.
C39_PrUrlReported ==
    (EndedNormally /\ submitCount > 0 /\ ~Nullish(submission.prUrl)) =>
        /\ Read(state, "prUrl") = submission.prUrl
        /\ result.prUrl = submission.prUrl

\* C40: when verify_fix has started the tests the sandbox differs from the
\* provisioned repository only in the current fix's file, and so it does when
\* submit_fix has read that file.
C40_OnlyCurrentFixModified ==
    /\ (Len(sandboxLog) = 2 => modified = {File(sandboxLog[1].arg)})
    /\ ((submitCount > 0 /\ ~Nullish(submission.fix)) =>
           modified = {File(submission.fix)})

====
